---- MODULE Spec2Model ----
(***************************************************************************)
(* A model of MandelbrotBase (src/lib/mandelbrot-ws-base.js): the channel  *)
(* registry, the handler tables, the managed-state slots and the dispatch  *)
(* of one inbound frame.  One action is one public operation or one frame  *)
(* handled to completion (the code is synchronous on a single event loop). *)
(*                                                                         *)
(* JavaScript values are modelled as follows.                              *)
(*  - A property key is a string: the channel id 5 and the text "5" index  *)
(*    the same property, so a channel id is modelled by its key.  The      *)
(*    value undefined used as a key is the string "undefined".             *)
(*  - An object used as a map (_channels, the handler tables, the books)   *)
(*    is a function whose DOMAIN is the set of keys the object holds.      *)
(*  - A decoded frame is a record with the fields the code reads.          *)
(*  - An exception leaving an operation is recorded in thrown; the effects *)
(*    made before the throw are kept, as in the code.                      *)
(*  - A caller's handler is a name; the handler named ThrowingHandler      *)
(*    throws when invoked, every other handler returns.  The code has no   *)
(*    try/catch around a handler, so the throw leaves handleMessage.       *)
(***************************************************************************)
EXTENDS Integers, Sequences, FiniteSets, TLC

VARIABLES
    conf,            \* which components the constructor was given
    ws,              \* this.ws: "undefined" until open() creates the socket
    connected,       \* this.connected: "undefined" | "true" | "false"
    channels,        \* this._channels: channel type -> (key -> ack message)
    bookHandlers,    \* this._bookHandlers: symbol -> handler
    tradeHandlers,   \* this._tradeHandlers: symbol -> handler
    infoHandlers,    \* this._infoHandlers: category key -> handler
    managedHandlers, \* this._managedHandlers: key -> handler
    managedState,    \* this._managedState: orders, books, wallet, positions
    log,             \* what the last operation did, in order: emits, sends,
                     \* slot updates and handler invocations
    thrown,          \* the exception the last operation raised, or "none"
    last,            \* the last operation and its input
    nops             \* number of operations performed in this session

vars == <<conf, ws, connected, channels, bookHandlers, tradeHandlers,
          infoHandlers, managedHandlers, managedState, log, thrown, last, nops>>

-----------------------------------------------------------------------------
(* Bounds and input sets *)

\* a session performs at most MaxOps operations (calls and frames)
MaxOps == 4

Undefined == "undefined"

Symbols == {"BTCUSD", "ETHUSD"}
ChanIds == {"5", "6"}
Deltas == {"d1", "d2"}
RawHandlers == {"h1", "h2"}
ManagedHandler == "m1"
OneSymbol == "BTCUSD"
OneChanId == "5"
OneHandler == "h1"

\* a caller-supplied handler that throws whenever it is invoked
ThrowingHandler == "hx"

\* The two ways the library is constructed: with the defaults (every
\* component null) and with all four components supplied.
Confs ==
    { [Wallet |-> b, Orderbook |-> b, Orders |-> b, Positions |-> b] : b \in BOOLEAN }

-----------------------------------------------------------------------------
(* Decoded frames *)

NoBody == [id |-> Undefined, symbol |-> Undefined]

\* msg[2] of an account-info frame: an array whose element 3 is the symbol
Body(id, symbol) == [id |-> id, symbol |-> symbol]

\* {event, channel, chanId, symbol}
Control(event, channel, chanId, symbol) ==
    [t |-> "object", event |-> event, channel |-> channel, chanId |-> chanId,
     symbol |-> symbol, data |-> Undefined, body |-> NoBody]

\* [chanId, data, body]
Arr(chanId, data, body) ==
    [t |-> "array", event |-> Undefined, channel |-> Undefined, chanId |-> chanId,
     symbol |-> Undefined, data |-> data, body |-> body]

\* JSON null, a JSON number, and a text that is not JSON; a record without
\* an event field is Control(Undefined, ...)
Scalar(t, text) ==
    [t |-> t, event |-> Undefined, channel |-> Undefined, chanId |-> Undefined,
     symbol |-> Undefined, data |-> text, body |-> NoBody]

NoMsg == Scalar("none", Undefined)

\* JSON.parse(m.data): the decoded value, or a SyntaxError
JSONparse(data) ==
    IF data.t = "garbage"
    THEN [ok |-> FALSE, value |-> NoMsg, e |-> "SyntaxError"]
    ELSE [ok |-> TRUE, value |-> data, e |-> "none"]

\* JavaScript truthiness of a string-or-undefined value
Truthy(v) == v # Undefined /\ v # ""

IsArray(msg) == msg.t = "array"

-----------------------------------------------------------------------------
(* The managed-state component contract: update, parse, getState.  A       *)
(* component's state is the sequence of raw updates applied to it; the view *)
(* parse returns names the raw update and the state it was computed        *)
(* against, so that the order of parse and update is observable.           *)

NullSlot == [null |-> TRUE, state |-> <<>>]
NewSlot == [null |-> FALSE, state |-> <<>>]

update(slot, raw) == [slot EXCEPT !.state = Append(@, raw)]
parse(slot, raw) == [raw |-> raw, at |-> slot.state]
getState(slot) == slot.state

-----------------------------------------------------------------------------
(* Log entries *)

Emit(event, arg) == [op |-> "emit", tgt |-> event, key |-> "", h |-> "", arg |-> arg]
Sent(msg) == [op |-> "send", tgt |-> "ws", key |-> "", h |-> "", arg |-> msg]
Updated(slot, key, raw) == [op |-> "update", tgt |-> slot, key |-> key, h |-> "", arg |-> raw]
Called(table, key, h, arg) == [op |-> "call", tgt |-> table, key |-> key, h |-> h, arg |-> arg]
Recorded(channel, key, msg) == [op |-> "record", tgt |-> channel, key |-> key, h |-> "", arg |-> msg]

\* The outcome of handling one frame
Outcome(ch, ms, lg, ex) == [channels |-> ch, managedState |-> ms, log |-> lg, thrown |-> ex]

-----------------------------------------------------------------------------
(* Init: the state the constructor leaves *)

Init ==
    /\ conf \in Confs
    /\ ws = Undefined
    /\ connected = Undefined
    /\ channels = <<>>
    /\ bookHandlers = <<>>
    /\ tradeHandlers = <<>>
    /\ infoHandlers = <<>>
    /\ managedHandlers = <<>>
    /\ managedState =
         [orders |-> IF conf.Orders THEN NewSlot ELSE NullSlot,
          books |-> <<>>,
          wallet |-> IF conf.Wallet THEN NewSlot ELSE NullSlot,
          positions |-> IF conf.Positions THEN NewSlot ELSE NullSlot]
    /\ log = <<>>
    /\ thrown = "none"
    /\ last = [op |-> "constructor", m |-> NoMsg, symbol |-> Undefined, h |-> ""]
    /\ nops = 0

-----------------------------------------------------------------------------
(* Dispatch of one decoded frame.  Each operator takes the log written so  *)
(* far and yields the Outcome of the call.                                 *)

Has(table, key) == key \in DOMAIN table

\* handler(...): whether the invocation throws, and what leaves the call
Throws(h) == h = ThrowingHandler

Ex(h) == IF Throws(h) THEN "HandlerError" ELSE "none"

\* table[key] = value on a JavaScript object
Put(table, key, value) == (key :> value) @@ table

\* delete table[key]
Delete(table, key) == [k \in (DOMAIN table) \ {key} |-> table[k]]

\* mutant: the ack is recorded under its symbol instead of its channel id
handleEventMessage_bySymbol(msg, lg) ==
    IF msg.event = "subscribed"
    THEN LET inner == IF Has(channels, msg.channel) THEN channels[msg.channel] ELSE <<>>
         IN Outcome(Put(channels, msg.channel, Put(inner, msg.symbol, msg)),
                    managedState, Append(lg, Recorded(msg.channel, msg.symbol, msg)), "none")
    ELSE Outcome(channels, managedState, lg, "none")

\* mutant: the ack is recorded before the frame is emitted
handleEventMessage_recordFirst(msg, lg) ==
    IF msg.event = "subscribed"
    THEN LET inner == IF Has(channels, msg.channel) THEN channels[msg.channel] ELSE <<>>
         IN Outcome(Put(channels, msg.channel, Put(inner, msg.chanId, msg)),
                    managedState, <<Recorded(msg.channel, msg.chanId, msg)>> \o lg, "none")
    ELSE Outcome(channels, managedState, lg, "none")

\* mutant: a control message with any event is recorded
handleEventMessage_anyEvent(msg, lg) ==
    LET inner == IF Has(channels, msg.channel) THEN channels[msg.channel] ELSE <<>>
    IN Outcome(Put(channels, msg.channel, Put(inner, msg.chanId, msg)),
               managedState, Append(lg, Recorded(msg.channel, msg.chanId, msg)), "none")

\* mutant: an ack for a channel id the registry holds is not recorded
handleEventMessage_keepFirst(msg, lg) ==
    IF msg.event = "subscribed"
    THEN LET inner == IF Has(channels, msg.channel) THEN channels[msg.channel] ELSE <<>>
         IN IF Has(inner, msg.chanId)
            THEN Outcome(channels, managedState, lg, "none")
            ELSE Outcome(Put(channels, msg.channel, Put(inner, msg.chanId, msg)),
                         managedState, Append(lg, Recorded(msg.channel, msg.chanId, msg)),
                         "none")
    ELSE Outcome(channels, managedState, lg, "none")

handleEventMessage(msg, lg) ==
    IF msg.event = "subscribed"
    THEN LET inner == IF Has(channels, msg.channel) THEN channels[msg.channel] ELSE <<>>
         IN Outcome(Put(channels, msg.channel, Put(inner, msg.chanId, msg)),
                    managedState, Append(lg, Recorded(msg.channel, msg.chanId, msg)), "none")
    ELSE Outcome(channels, managedState, lg, "none")

handlePublicTradesMessage(chanId, msg, lg) ==
    IF ~Has(channels, "trades")
    THEN Outcome(channels, managedState, lg, "none")
    ELSE IF ~Has(channels["trades"], chanId)
    THEN \* destructuring undefined
         Outcome(channels, managedState, lg, "TypeError")
    ELSE LET symbol == channels["trades"][chanId].symbol
         IN IF ~Has(tradeHandlers, symbol)
            THEN Outcome(channels, managedState, lg, "none")
            ELSE Outcome(channels, managedState,
                         Append(lg, Called("_tradeHandlers", symbol, tradeHandlers[symbol], msg)),
                         Ex(tradeHandlers[symbol]))

internalOrderbookHandler(ms, symbol) ==
    LET k == "managed-ob" \o symbol
    IN IF ~Has(managedHandlers, k)
       THEN <<>>
       ELSE <<Called("_managedHandlers", k, managedHandlers[k], getState(ms.books[symbol]))>>

\* mutant: the raw handler's view is parsed before the update is applied
bookDelta_staleView(symbol, data, lg) ==
    LET books == managedState.books
    IN IF ~Has(books, symbol) /\ ~conf.Orderbook
       THEN Outcome(channels, managedState, lg, "TypeError")
       ELSE LET slot == IF Has(books, symbol) THEN books[symbol] ELSE NewSlot
                view == parse(slot, data)
                o == update(slot, data)
                ms == [managedState EXCEPT !.books = Put(books, symbol, o)]
                lg1 == (lg \o <<Updated("books", symbol, data)>>)
                         \o internalOrderbookHandler(ms, symbol)
            IN IF ~Has(bookHandlers, symbol)
               THEN Outcome(channels, ms, lg1, "none")
               ELSE Outcome(channels, ms,
                            Append(lg1, Called("_bookHandlers", symbol,
                                               bookHandlers[symbol], view)),
                            "none")

\* the delta of an acknowledged book channel
bookDelta(symbol, data, lg) ==
    LET books == managedState.books
    IN IF ~Has(books, symbol) /\ ~conf.Orderbook
       THEN \* this._Orderbook is not a constructor
            Outcome(channels, managedState, lg, "TypeError")
       ELSE LET slot == IF Has(books, symbol) THEN books[symbol] ELSE NewSlot
                o == update(slot, data)
                ms == [managedState EXCEPT !.books = Put(books, symbol, o)]
                lg1 == (lg \o <<Updated("books", symbol, data)>>)
                         \o internalOrderbookHandler(ms, symbol)
            IN IF Has(managedHandlers, "managed-ob" \o symbol)
                  /\ Throws(managedHandlers["managed-ob" \o symbol])
               THEN \* the managed handler threw: line 216 is not reached
                    Outcome(channels, ms, lg1, "HandlerError")
               ELSE IF ~Has(bookHandlers, symbol)
               THEN Outcome(channels, ms, lg1, "none")
               ELSE Outcome(channels, ms,
                            Append(lg1, Called("_bookHandlers", symbol,
                                               bookHandlers[symbol], parse(o, data))),
                            Ex(bookHandlers[symbol]))

\* (the guard of line 191, !msg, never holds for the array handleMessage passes)
handleOrderbookMessage(msg, lg) ==
    LET chanId == msg.chanId
        data == msg.data
    IN IF data = "te" \/ data = "tu"
       THEN handlePublicTradesMessage(chanId, msg, lg)
       ELSE IF ~Has(channels, "book")
       THEN \* this._channels['book'] is undefined
            Outcome(channels, managedState, lg, "TypeError")
       ELSE IF ~Has(channels["book"], chanId)
       THEN Outcome(channels, managedState, lg, "none")
       ELSE bookDelta(channels["book"][chanId].symbol, data, lg)

\* mutant: the private-trade codes resolve to the orders category
getInfoHandlerId_tradesAsOrders(id) ==
    IF id = "ws" \/ id = "wu" THEN "info-wallet"
    ELSE IF id = "os" \/ id = "on" \/ id = "ou" \/ id = "oc" \/ id = "tu" \/ id = "te"
    THEN "info-orders"
    ELSE "info-positions"

getInfoHandlerId(id) ==
    IF id = "ws" \/ id = "wu" THEN "info-wallet"
    ELSE IF id = "os" \/ id = "on" \/ id = "ou" \/ id = "oc" THEN "info-orders"
    ELSE IF id = "tu" \/ id = "te" THEN "info-priv-trades"
    ELSE IF id = "ps" \/ id = "pn" \/ id = "pu" \/ Truthy("pc") THEN "info-positions"
    ELSE id

internalPositionsHandler(msg, lg) ==
    LET ms == managedState.positions
    IN IF ms.null
       THEN Outcome(channels, managedState, lg, "none")
       ELSE LET ms1 == update(ms, msg)
                st == [managedState EXCEPT !.positions = ms1]
                lg1 == Append(lg, Updated("positions", "", msg))
            IN IF ~Has(managedHandlers, "managed-positions")
               THEN Outcome(channels, st, lg1, "none")
               ELSE Outcome(channels, st,
                            Append(lg1, Called("_managedHandlers", "managed-positions",
                                               managedHandlers["managed-positions"],
                                               getState(ms1))),
                            Ex(managedHandlers["managed-positions"]))

internalOrdersHandler(st) ==
    IF ~Has(managedHandlers, "managed-orders") THEN <<>>
    ELSE IF st.orders.null THEN <<>>
    ELSE <<Called("_managedHandlers", "managed-orders",
                  managedHandlers["managed-orders"], getState(st.orders))>>

internalWalletHandler(st) ==
    IF ~Has(managedHandlers, "managed-wallets") THEN <<>>
    ELSE <<Called("_managedHandlers", "managed-wallets",
                  managedHandlers["managed-wallets"], getState(st.wallet))>>

\* mutant: the wallet slot is updated before the raw handler's view is parsed
infoWallet_updateFirst(msg, handler, lg) ==
    LET wallet == managedState.wallet
        wm == msg.body
    IN IF wallet.null
       THEN Outcome(channels, managedState, lg, "TypeError")
       ELSE LET updated == update(wallet, wm)
                lg1 == IF handler # Undefined
                       THEN Append(lg, Called("_infoHandlers", "info-wallet", handler,
                                              parse(updated, wm)))
                       ELSE lg
                st == [managedState EXCEPT !.wallet = updated]
            IN Outcome(channels, st,
                       (lg1 \o <<Updated("wallet", "", wm)>>) \o internalWalletHandler(st),
                       "none")

\* the wallet branch of handleInfoMessage
infoWallet(msg, handler, lg) ==
    LET wallet == managedState.wallet
        wm == msg.body
    IN IF wallet.null
       THEN \* wallet.parse or wallet.update on null
            Outcome(channels, managedState, lg, "TypeError")
       ELSE LET lg1 == IF handler # Undefined
                       THEN Append(lg, Called("_infoHandlers", "info-wallet", handler,
                                              parse(wallet, wm)))
                       ELSE lg
                st == [managedState EXCEPT !.wallet = update(wallet, wm)]
            IN IF Throws(handler)
               THEN \* the raw handler threw: line 254 is not reached
                    Outcome(channels, managedState, lg1, "HandlerError")
               ELSE Outcome(channels, st,
                            (lg1 \o <<Updated("wallet", "", wm)>>) \o internalWalletHandler(st),
                            IF Has(managedHandlers, "managed-wallets")
                            THEN Ex(managedHandlers["managed-wallets"])
                            ELSE "none")

\* mutant: the filtered handler runs only when no general handler did
infoOrders_eitherHandler(msg, handler, lg) ==
    LET om == msg.body
        lg1 == IF handler # Undefined
               THEN Append(lg, Called("_infoHandlers", "info-orders", handler, msg))
               ELSE lg
    IN IF om = NoBody
       THEN Outcome(channels, managedState, lg1, "TypeError")
       ELSE LET symbol == om.symbol
                k == "info-orders" \o "-" \o symbol
                lg2 == IF handler = Undefined /\ Has(infoHandlers, k)
                       THEN Append(lg1, Called("_infoHandlers", k, infoHandlers[k], msg))
                       ELSE lg1
            IN IF managedState.orders.null
               THEN Outcome(channels, managedState, lg2, "TypeError")
               ELSE LET st == [managedState EXCEPT !.orders = update(@, msg)]
                    IN Outcome(channels, st,
                               (lg2 \o <<Updated("orders", "", msg)>>)
                                  \o internalOrdersHandler(st),
                               "none")

\* the orders branch of handleInfoMessage
infoOrders(msg, handler, lg) ==
    LET om == msg.body
        lg1 == IF handler # Undefined
               THEN Append(lg, Called("_infoHandlers", "info-orders", handler, msg))
               ELSE lg
    IN IF Throws(handler)
       THEN \* the general handler threw: line 266 is not reached
            Outcome(channels, managedState, lg1, "HandlerError")
       ELSE IF om = NoBody
       THEN \* om[3] of undefined
            Outcome(channels, managedState, lg1, "TypeError")
       ELSE LET symbol == om.symbol
                k == "info-orders" \o "-" \o symbol
                lg2 == IF Has(infoHandlers, k)
                       THEN Append(lg1, Called("_infoHandlers", k, infoHandlers[k], msg))
                       ELSE lg1
            IN IF Has(infoHandlers, k) /\ Throws(infoHandlers[k])
               THEN \* the filtered handler threw: line 270 is not reached
                    Outcome(channels, managedState, lg2, "HandlerError")
               ELSE IF managedState.orders.null
               THEN Outcome(channels, managedState, lg2, "TypeError")
               ELSE LET st == [managedState EXCEPT !.orders = update(@, msg)]
                    IN Outcome(channels, st,
                               (lg2 \o <<Updated("orders", "", msg)>>)
                                  \o internalOrdersHandler(st),
                               IF Has(managedHandlers, "managed-orders")
                               THEN Ex(managedHandlers["managed-orders"])
                               ELSE "none")

handleInfoMessage(msg, lg) ==
    LET id == getInfoHandlerId(msg.data)
        handler == IF Has(infoHandlers, id) THEN infoHandlers[id] ELSE Undefined
    IN IF id = "info-wallet"
       THEN infoWallet(msg, handler, lg)
       ELSE IF id = "info-orders"
       THEN infoOrders(msg, handler, lg)
       ELSE IF id = "info-priv-trades"
       THEN Outcome(channels, managedState,
                    IF handler # Undefined
                    THEN Append(lg, Called("_infoHandlers", id, handler, msg))
                    ELSE lg,
                    Ex(handler))
       ELSE IF id = "info-positions"
       THEN internalPositionsHandler(msg, lg)
       ELSE Outcome(channels, managedState, lg, "none")

\* mutant: the error event does not carry the frame's text
decodeFailure_withoutText(m, e) ==
    Outcome(channels, managedState,
            <<Emit("error", [message |-> "invalid message, see info and msg prop",
                             info |-> e, msg |-> NoMsg])>>,
            "none")

\* the catch block of handleMessage
decodeFailure(m, e) ==
    Outcome(channels, managedState,
            <<Emit("error", [message |-> "invalid message, see info and msg prop",
                             info |-> e, msg |-> m.data])>>,
            "none")

\* handleMessage(m): what handling the raw frame m does
Handled(m) ==
    LET decoded == JSONparse(m.data)
        msg == decoded.value
        lg == <<Emit("message", msg)>>
    IN IF ~decoded.ok
       THEN decodeFailure(m, decoded.e)
       ELSE IF msg.t = "null"
       THEN \* msg.event of null
            Outcome(channels, managedState, lg, "TypeError")
       ELSE IF Truthy(msg.event)
       THEN handleEventMessage(msg, lg)
       ELSE IF IsArray(msg) /\ msg.chanId = "0"
       THEN handleInfoMessage(msg, lg)
       ELSE IF IsArray(msg)
       THEN handleOrderbookMessage(msg, lg)
       ELSE Outcome(channels, managedState, lg, "none")


-----------------------------------------------------------------------------
(* Actions: the public operations and the transport's callbacks *)

Op(name, m, symbol, h) == [op |-> name, m |-> m, symbol |-> symbol, h |-> h]

\* the fields an operation that only registers or sends leaves alone
Step(name, m, symbol, h) ==
    /\ nops < MaxOps
    /\ last' = Op(name, m, symbol, h)
    /\ nops' = nops + 1
    /\ UNCHANGED conf

\* open(): creates the socket and installs the four callbacks
open ==
    /\ ws' = "WebSocket"
    /\ log' = <<>>
    /\ thrown' = "none"
    /\ Step("open", NoMsg, Undefined, "")
    /\ UNCHANGED <<connected, channels, bookHandlers, tradeHandlers, infoHandlers,
                   managedHandlers, managedState>>

\* ws.onopen
onopen ==
    /\ ws # Undefined
    /\ connected' = "true"
    /\ log' = <<Emit("open", NoMsg)>>
    /\ thrown' = "none"
    /\ Step("onopen", NoMsg, Undefined, "")
    /\ UNCHANGED <<ws, channels, bookHandlers, tradeHandlers, infoHandlers,
                   managedHandlers, managedState>>

\* ws.onclose
onclose ==
    /\ ws # Undefined
    /\ connected' = "false"
    /\ log' = <<Emit("close", NoMsg)>>
    /\ thrown' = "none"
    /\ Step("onclose", NoMsg, Undefined, "")
    /\ UNCHANGED <<ws, channels, bookHandlers, tradeHandlers, infoHandlers,
                   managedHandlers, managedState>>

\* send(msg): this.ws.send(JSON.stringify(msg)); yields <<log, thrown>>
send(msg) ==
    IF ws = Undefined
    THEN [log |-> <<>>, thrown |-> "TypeError"]
    ELSE [log |-> <<Sent(msg)>>, thrown |-> "none"]

subscribe(channel, opts) == send(Control("subscribe", channel, Undefined, opts.symbol))

unsubscribe(channel, opts) == send(Control("unsubscribe", channel, Undefined, opts.symbol))

subscribeOrderBook(symbol) ==
    LET r == subscribe("book", [symbol |-> symbol])
    IN /\ log' = r.log
       /\ thrown' = r.thrown
       /\ Step("subscribeOrderBook", NoMsg, symbol, "")
       /\ UNCHANGED <<ws, connected, channels, bookHandlers, tradeHandlers, infoHandlers,
                      managedHandlers, managedState>>

\* mutant: the unsubscribe command is sent whether or not the lookup finds
\* an entry
unSubscribeOrderBook_always(symbol) ==
    /\ LET r == unsubscribe("book", [symbol |-> symbol])
       IN /\ log' = r.log
          /\ thrown' = r.thrown
          /\ IF r.thrown # "none" \/ ~Has(channels, "book")
             THEN UNCHANGED <<channels, managedState>>
             ELSE /\ channels' = [channels EXCEPT !["book"] = Delete(@, symbol)]
                  /\ managedState' = [managedState EXCEPT !.books = Delete(@, symbol)]
    /\ Step("unSubscribeOrderBook", NoMsg, symbol, "")
    /\ UNCHANGED <<ws, connected, bookHandlers, tradeHandlers, infoHandlers, managedHandlers>>

unSubscribeOrderBook(symbol) ==
    /\ IF ~Has(channels, "book")
       THEN /\ log' = <<>>
            /\ thrown' = "none"
            /\ UNCHANGED <<channels, managedState>>
       ELSE IF ~Has(channels["book"], symbol)
       THEN /\ log' = <<>>
            /\ thrown' = "none"
            /\ UNCHANGED <<channels, managedState>>
       ELSE LET r == unsubscribe("book", [symbol |-> symbol])
            IN /\ log' = r.log
               /\ thrown' = r.thrown
               /\ IF r.thrown # "none"
                  THEN UNCHANGED <<channels, managedState>>
                  ELSE /\ channels' = [channels EXCEPT !["book"] = Delete(@, symbol)]
                       /\ managedState' =
                            [managedState EXCEPT !.books = Delete(@, symbol)]
    /\ Step("unSubscribeOrderBook", NoMsg, symbol, "")
    /\ UNCHANGED <<ws, connected, bookHandlers, tradeHandlers, infoHandlers, managedHandlers>>

\* handleMessage(m): ws.onmessage delivers the raw frame m
handleMessage(m) ==
    \E r \in {Handled(m)} :
       /\ channels' = r.channels
       /\ managedState' = r.managedState
       /\ log' = r.log
       /\ thrown' = r.thrown
       /\ Step("handleMessage", m.data, Undefined, "")
       /\ UNCHANGED <<ws, connected, bookHandlers, tradeHandlers, infoHandlers,
                      managedHandlers>>

\* A registration: the tables after it, the rest unchanged
Register(name, symbol, h, bh, th, ih, mh, ex) ==
    /\ bookHandlers' = bh
    /\ tradeHandlers' = th
    /\ infoHandlers' = ih
    /\ managedHandlers' = mh
    /\ log' = <<>>
    /\ thrown' = ex
    /\ Step(name, NoMsg, symbol, h)
    /\ UNCHANGED <<ws, connected, channels, managedState>>

\* mutant: the filter is not validated, as in onPublicTradeUpdate
onOrderBook_unchecked(filter, handler) ==
    LET symbol == filter.symbol
    IN Register("onOrderBook", symbol, handler, Put(bookHandlers, symbol, handler),
                tradeHandlers, infoHandlers, managedHandlers, "none")

onOrderBook(filter, handler) ==
    LET symbol == filter.symbol
    IN IF ~Truthy(symbol)
       THEN Register("onOrderBook", symbol, handler, bookHandlers, tradeHandlers,
                     infoHandlers, managedHandlers, "Error: missing: filter.symbol")
       ELSE Register("onOrderBook", symbol, handler, Put(bookHandlers, symbol, handler),
                     tradeHandlers, infoHandlers, managedHandlers, "none")

onWallet(filter, handler) ==
    Register("onWallet", filter.symbol, handler, bookHandlers, tradeHandlers,
             Put(infoHandlers, "info-wallet", handler), managedHandlers, "none")

onOrderUpdate(filter, handler) ==
    LET symbol == filter.symbol
        k == IF Truthy(symbol) THEN "info-orders-" \o symbol ELSE "info-orders"
    IN Register("onOrderUpdate", symbol, handler, bookHandlers, tradeHandlers,
                Put(infoHandlers, k, handler), managedHandlers, "none")

onPublicTradeUpdate(filter, handler) ==
    LET symbol == filter.symbol
    IN Register("onPublicTradeUpdate", symbol, handler, bookHandlers,
                Put(tradeHandlers, symbol, handler), infoHandlers, managedHandlers, "none")

onPrivateTradeUpdate(filter, handler) ==
    Register("onPrivateTradeUpdate", filter.symbol, handler, bookHandlers, tradeHandlers,
             Put(infoHandlers, "info-priv-trades", handler), managedHandlers, "none")

onManagedPositionsUpdate(filter, handler) ==
    Register("onManagedPositionsUpdate", filter.symbol, handler, bookHandlers, tradeHandlers,
             infoHandlers, Put(managedHandlers, "managed-positions", handler), "none")

onManagedWalletUpdate(filter, handler) ==
    Register("onManagedWalletUpdate", filter.symbol, handler, bookHandlers, tradeHandlers,
             infoHandlers, Put(managedHandlers, "managed-wallets", handler), "none")

onManagedOrderbookUpdate(filter, handler) ==
    LET symbol == filter.symbol
        k == "managed-ob" \o symbol
    IN Register("onManagedOrderbookUpdate", symbol, handler, bookHandlers, tradeHandlers,
                infoHandlers, Put(managedHandlers, k, handler), "none")

onManagedOrdersUpdate(filter, handler) ==
    Register("onManagedOrdersUpdate", filter.symbol, handler, bookHandlers, tradeHandlers,
             infoHandlers, Put(managedHandlers, "managed-orders", handler), "none")

-----------------------------------------------------------------------------
(* Inputs *)

Filter(symbol) == [symbol |-> symbol]

\* a raw frame as the transport delivers it: m.data is the text
Frame(text) == [data |-> text]

BookAcks == { Control("subscribed", "book", c, s) : c \in ChanIds, s \in Symbols }

BookDeltas == { Arr(c, d, NoBody) : c \in ChanIds, d \in Deltas }

BookFrames == { Frame(x) : x \in BookAcks \cup BookDeltas }

\* what callers pass to unSubscribeOrderBook: a symbol, or the channel id
UnsubArgs == Symbols \cup ChanIds

-----------------------------------------------------------------------------
(* The order-book session: subscriptions, acks and book deltas *)

NextBook ==
    \/ open
    \/ \E s \in Symbols : subscribeOrderBook(s)
    \/ \E s \in UnsubArgs : unSubscribeOrderBook(s)
    \/ \E s \in Symbols \cup {Undefined}, h \in RawHandlers : onOrderBook(Filter(s), h)
    \/ \E s \in Symbols : onManagedOrderbookUpdate(Filter(s), ManagedHandler)
    \/ \E m \in BookFrames : handleMessage(m)

SpecBook == Init /\ [][NextBook]_vars


-----------------------------------------------------------------------------
(* The account session: account-info frames and their handlers *)

WalletCodes == {"ws", "wu"}
OrderCodes == {"os", "on", "ou", "oc"}
PrivTradeCodes == {"tu", "te"}
PositionCodes == {"ps", "pn", "pu", "pc"}

\* two-letter codes the table does not list
UnknownCodes == {"hb", "xx"}

B1 == Body("b1", "BTCUSD")
B2 == Body("b2", "ETHUSD")

InfoFrames ==
    { Frame(Arr("0", code, b)) : code \in WalletCodes, b \in {B1, B2} }
      \cup { Frame(Arr("0", code, b)) : code \in OrderCodes, b \in {B1, NoBody} }
      \cup { Frame(Arr("0", code, B1)) : code \in {"tu", "ps", "pc"} \cup UnknownCodes }

NextInfo ==
    \/ \E m \in InfoFrames : handleMessage(m)
    \/ onWallet(Filter(Undefined), OneHandler)
    \/ \E s \in Symbols \cup {Undefined}, h \in RawHandlers : onOrderUpdate(Filter(s), h)
    \/ onPrivateTradeUpdate(Filter(Undefined), OneHandler)
    \/ onManagedPositionsUpdate(Filter(Undefined), ManagedHandler)
    \/ onManagedWalletUpdate(Filter(Undefined), ManagedHandler)
    \/ onManagedOrdersUpdate(Filter(Undefined), ManagedHandler)

SpecInfo == Init /\ [][NextInfo]_vars

-----------------------------------------------------------------------------
(* The whole session: every operation and every kind of frame, over one    *)
(* symbol and one channel id                                               *)

Garbage == { Scalar("garbage", text) : text \in {"{bad", ""} }

WireFrames ==
    { Frame(x) :
        x \in { Control("subscribed", "book", OneChanId, OneSymbol),
                Control("subscribed", "trades", OneChanId, OneSymbol),
                Control("unsubscribed", "book", OneChanId, Undefined),
                Arr(OneChanId, "d1", NoBody),
                Arr(OneChanId, "te", NoBody),
                Arr("0", "ws", Body("b1", OneSymbol)),
                Arr("0", "os", Body("b1", OneSymbol)),
                Arr("0", "tu", Body("b1", OneSymbol)),
                Arr("0", "ps", Body("b1", OneSymbol)),
                Arr("0", "hb", Body("b1", OneSymbol)),
                Control(Undefined, "book", OneChanId, OneSymbol),
                Scalar("null", "null"),
                Scalar("number", "7") } \cup Garbage }

Next ==
    \/ open
    \/ onopen
    \/ onclose
    \/ subscribeOrderBook(OneSymbol)
    \/ unSubscribeOrderBook(OneSymbol)
    \/ \E m \in WireFrames : handleMessage(m)
    \/ \E s \in {OneSymbol, Undefined} : onOrderBook(Filter(s), OneHandler)
    \/ onWallet(Filter(Undefined), OneHandler)
    \/ \E s \in {OneSymbol, Undefined} : onOrderUpdate(Filter(s), OneHandler)
    \/ \E s \in {OneSymbol, Undefined} : onPublicTradeUpdate(Filter(s), OneHandler)
    \/ onPrivateTradeUpdate(Filter(Undefined), OneHandler)
    \/ onManagedPositionsUpdate(Filter(Undefined), ManagedHandler)
    \/ onManagedWalletUpdate(Filter(Undefined), ManagedHandler)
    \/ onManagedOrderbookUpdate(Filter(OneSymbol), ManagedHandler)
    \/ onManagedOrdersUpdate(Filter(Undefined), ManagedHandler)

Spec == Init /\ [][Next]_vars

-----------------------------------------------------------------------------
(* The trades session: public trade updates on market-data channels and    *)
(* private trade updates on channel zero                                   *)

TradeAcks == { Control("subscribed", "trades", c, s) : c \in ChanIds, s \in Symbols }

PublicTrades == { Arr(c, d, NoBody) : c \in ChanIds, d \in {"te", "tu"} }

PrivateTrades == { Arr("0", code, B1) : code \in PrivTradeCodes }

TradeFrames == { Frame(x) : x \in (TradeAcks \cup PublicTrades) \cup PrivateTrades }

NextTrades ==
    \/ \E m \in TradeFrames : handleMessage(m)
    \/ \E s \in Symbols, h \in RawHandlers : onPublicTradeUpdate(Filter(s), h)
    \/ onPrivateTradeUpdate(Filter(Undefined), OneHandler)
    \/ \E s \in {OneSymbol, Undefined} : onOrderUpdate(Filter(s), OneHandler)
    \/ onWallet(Filter(Undefined), OneHandler)
    \/ onManagedPositionsUpdate(Filter(Undefined), ManagedHandler)
    \/ onManagedWalletUpdate(Filter(Undefined), ManagedHandler)
    \/ onManagedOrdersUpdate(Filter(Undefined), ManagedHandler)

SpecTrades == Init /\ [][NextTrades]_vars

-----------------------------------------------------------------------------
(* The session with a handler that throws: orders and wallet frames, raw   *)
(* handlers that return or throw, managed handlers                         *)

ThrowFrames ==
    { Frame(x) : x \in { Arr("0", "os", B1), Arr("0", "os", B2), Arr("0", "ws", B1) } }

NextThrow ==
    \/ \E m \in ThrowFrames : handleMessage(m)
    \/ \E s \in Symbols \cup {Undefined}, h \in {OneHandler, ThrowingHandler} :
          onOrderUpdate(Filter(s), h)
    \/ \E h \in {OneHandler, ThrowingHandler} : onWallet(Filter(Undefined), h)
    \/ onManagedOrdersUpdate(Filter(Undefined), ManagedHandler)
    \/ onManagedWalletUpdate(Filter(Undefined), ManagedHandler)

SpecThrow == Init /\ [][NextThrow]_vars

-----------------------------------------------------------------------------
(* Vocabulary of the properties *)

IsFrame == last.op = "handleMessage"

\* a market-data frame that is not a public trade update
IsBookDelta(msg) == IsArray(msg) /\ msg.chanId # "0" /\ msg.data \notin {"te", "tu"}

IsBookAck(msg) == msg.t = "object" /\ msg.event = "subscribed" /\ msg.channel = "book"

\* the 'book' registry resolves channel id c
Resolves(ch, c) == Has(ch, "book") /\ Has(ch["book"], c)

\* the places in lg where the handler registered in table under key was invoked
CallsTo(lg, table, key) ==
    { i \in DOMAIN lg : lg[i].op = "call" /\ lg[i].tgt = table /\ lg[i].key = key }

Calls(lg) == { i \in DOMAIN lg : lg[i].op = "call" }

Updates(lg) == { i \in DOMAIN lg : lg[i].op = "update" }

\* the state of the book slot of symbol s, empty when the slot does not exist
BookState(ms, s) == IF Has(ms.books, s) THEN ms.books[s].state ELSE <<>>

-----------------------------------------------------------------------------
(* C1: the raw order-book handler registered for a symbol is invoked for   *)
(* exactly the book frames whose channel id is the one the 'subscribed'    *)
(* ack gave that symbol, once per frame, with that frame, frame by frame   *)
(* as they arrive; it is invoked for no frame with another channel id and  *)
(* by no other operation.  Stated for a session constructed with an        *)
(* Orderbook component.  Three parts: an ack records its channel id for    *)
(* its symbol; only acks and unSubscribeOrderBook change the registry;     *)
(* each step invokes the handler of symbol s once if the step is a book    *)
(* frame whose channel id the registry gives to s, and not at all          *)
(* otherwise.                                                              *)

C1_AckRecorded ==
    (last'.op = "handleMessage" /\ IsBookAck(last'.m)) =>
        /\ Resolves(channels', last'.m.chanId)
        /\ channels'["book"][last'.m.chanId] = last'.m
        /\ \A c \in ChanIds \ {last'.m.chanId} :
              /\ Resolves(channels', c) <=> Resolves(channels, c)
              /\ Resolves(channels, c) => channels'["book"][c] = channels["book"][c]

C1_RegistryStable ==
    (~(last'.op = "handleMessage" /\ last'.m.event = "subscribed")
       /\ last'.op # "unSubscribeOrderBook") => channels' = channels

C1_Routed ==
    conf.Orderbook =>
        \A s \in Symbols \cup {Undefined} :
            LET idx == CallsTo(log', "_bookHandlers", s)
                c == last'.m.chanId
            IN IF /\ last'.op = "handleMessage"
                  /\ IsBookDelta(last'.m)
                  /\ Resolves(channels, c)
                  /\ channels["book"][c].symbol = s
                  /\ Has(bookHandlers, s)
               THEN /\ Cardinality(idx) = 1
                    /\ \A i \in idx : /\ log'[i].h = bookHandlers[s]
                                      /\ log'[i].arg.raw = last'.m.data
               ELSE idx = {}

-----------------------------------------------------------------------------
(* C2: after unSubscribeOrderBook(symbol) for a symbol whose book          *)
(* subscription was acknowledged, the registry maps no channel id to that  *)
(* symbol and the symbol has no book slot; a frame with the old channel id *)
(* then invokes no handler and creates no slot.                            *)

C2_Unsubscribed ==
    (/\ last'.op = "unSubscribeOrderBook"
     /\ \E c \in ChanIds : Resolves(channels, c) /\ channels["book"][c].symbol = last'.symbol)
    => /\ \A c \in ChanIds :
             Resolves(channels', c) => channels'["book"][c].symbol # last'.symbol
       /\ ~Has(managedState'.books, last'.symbol)

C2_OldFrameDropped ==
    (/\ last'.op = "handleMessage" /\ IsBookDelta(last'.m)
     /\ last.op = "unSubscribeOrderBook"
     /\ Resolves(channels, last'.m.chanId)
     /\ channels["book"][last'.m.chanId].symbol = last.symbol)
    => /\ Calls(log') = {}
       /\ managedState' = managedState

\* C2: unsubscribing an acknowledged symbol removes its registry entry and its
\* book slot, and the next frame with the old channel id is dropped
C2_UnsubscribeRemoves == [][C2_Unsubscribed /\ C2_OldFrameDropped]_vars

-----------------------------------------------------------------------------
(* C3: in every reachable state, the initial one included, a book frame    *)
(* whose channel id the 'book' registry does not hold is dropped: nothing  *)
(* is raised, no handler runs, no slot is created or updated, the registry *)
(* is unchanged.                                                           *)

\* C3: a book frame with a channel id the registry does not hold is dropped
\* without raising
C3_UnknownChannelDropped ==
    [][ (/\ last'.op = "handleMessage" /\ IsBookDelta(last'.m)
         /\ ~Resolves(channels, last'.m.chanId))
        => /\ thrown' = "none"
           /\ Calls(log') = {}
           /\ managedState' = managedState
           /\ channels' = channels ]_vars


-----------------------------------------------------------------------------
(* C7: a delta on an acknowledged book channel creates the symbol's slot   *)
(* if it is absent and applies update(payload) to it exactly once, before  *)
(* any handler runs; then the managed handler of the symbol receives       *)
(* getState() taken after the update, and then the raw handler receives    *)
(* parse(payload) of this delta, evaluated after the update.  Stated for a *)
(* session constructed with an Orderbook component.                        *)

C7_Step ==
    (/\ last'.op = "handleMessage" /\ IsBookDelta(last'.m)
     /\ Resolves(channels, last'.m.chanId)
     /\ conf.Orderbook)
    => LET s == channels["book"][last'.m.chanId].symbol
           d == last'.m.data
           after == Append(BookState(managedState, s), d)
           k == "managed-ob" \o s
       IN /\ Has(managedState'.books, s)
          /\ managedState'.books[s].state = after
          /\ \A s2 \in Symbols \ {s} :
                /\ Has(managedState'.books, s2) <=> Has(managedState.books, s2)
                /\ BookState(managedState', s2) = BookState(managedState, s2)
          /\ thrown' = "none"
          /\ log' = (<<Emit("message", last'.m), Updated("books", s, d)>>
                       \o (IF Has(managedHandlers, k)
                           THEN <<Called("_managedHandlers", k, managedHandlers[k], after)>>
                           ELSE <<>>))
                       \o (IF Has(bookHandlers, s)
                           THEN <<Called("_bookHandlers", s, bookHandlers[s],
                                         [raw |-> d, at |-> after])>>
                           ELSE <<>>)

-----------------------------------------------------------------------------
(* C8: onOrderBook with a filter that has no symbol fails with an error    *)
(* and leaves the book handler table unchanged; with a symbol it succeeds  *)
(* and puts the handler in the symbol's single slot, replacing the one     *)
(* before; no other operation changes the table; the handler a book delta  *)
(* invokes for a symbol is the one in the slot, so the most recently       *)
(* registered one, and it is invoked at most once.                         *)

C8_Step ==
    /\ (last'.op = "onOrderBook" /\ ~Truthy(last'.symbol)) =>
          /\ thrown' # "none"
          /\ bookHandlers' = bookHandlers
    /\ (last'.op = "onOrderBook" /\ Truthy(last'.symbol)) =>
          /\ thrown' = "none"
          /\ Has(bookHandlers', last'.symbol)
          /\ bookHandlers'[last'.symbol] = last'.h
          /\ \A s \in Symbols \ {last'.symbol} :
                /\ Has(bookHandlers', s) <=> Has(bookHandlers, s)
                /\ Has(bookHandlers, s) => bookHandlers'[s] = bookHandlers[s]
    /\ last'.op # "onOrderBook" => bookHandlers' = bookHandlers
    /\ \A s \in Symbols \cup {Undefined} :
          LET idx == CallsTo(log', "_bookHandlers", s)
          IN /\ Cardinality(idx) <= 1
             /\ \A i \in idx : Has(bookHandlers, s) /\ log'[i].h = bookHandlers[s]

\* C8: onOrderBook refuses a filter without a symbol and otherwise fills the
\* symbol's single slot; the handler in the slot is the one invoked
C8_LastRegistrationWins == [][C8_Step]_vars

\* a registration without a symbol was refused while the table held h2 for
\* BTCUSD
C8_Witness ==
    /\ last.op = "onOrderBook" /\ ~Truthy(last.symbol)
    /\ thrown # "none"
    /\ Has(bookHandlers, "BTCUSD") /\ bookHandlers["BTCUSD"] = "h2"


-----------------------------------------------------------------------------
(* C4: an account-info frame whose code the table does not list resolves   *)
(* to the category that is the code itself; its dispatch raises nothing,   *)
(* invokes no handler and updates no slot.                                 *)

KnownCodes == WalletCodes \cup OrderCodes \cup PrivTradeCodes \cup PositionCodes

IsInfo(msg) == IsArray(msg) /\ msg.chanId = "0"

C4_Step ==
    (last'.op = "handleMessage" /\ IsInfo(last'.m) /\ last'.m.data \notin KnownCodes)
    => /\ getInfoHandlerId(last'.m.data) = last'.m.data
       /\ thrown' = "none"
       /\ Calls(log') = {}
       /\ Updates(log') = {}
       /\ managedState' = managedState

\* C4: an unlisted info code is its own category and touches no handler, no slot
C4_UnknownCodePassthrough == [][C4_Step]_vars

-----------------------------------------------------------------------------
(* C5: for a wallet frame with body B the raw wallet handler, if           *)
(* registered, is invoked with parse(B) evaluated against the state the    *)
(* wallet slot held before B; then update(B) is applied to the slot        *)
(* exactly once; then the managed wallet handler, if registered, is        *)
(* invoked with getState() holding B.  Stated for a session constructed    *)
(* with a Wallet component.                                                *)

C5_Step ==
    (/\ last'.op = "handleMessage" /\ IsInfo(last'.m) /\ last'.m.data \in WalletCodes
     /\ conf.Wallet)
    => LET B == last'.m.body
           before == managedState.wallet.state
           after == Append(before, B)
       IN /\ managedState' = [managedState EXCEPT !.wallet.state = after]
          /\ thrown' = "none"
          /\ log' = ((<<Emit("message", last'.m)>>
                        \o (IF Has(infoHandlers, "info-wallet")
                            THEN <<Called("_infoHandlers", "info-wallet",
                                          infoHandlers["info-wallet"],
                                          [raw |-> B, at |-> before])>>
                            ELSE <<>>))
                        \o <<Updated("wallet", "", B)>>)
                        \o (IF Has(managedHandlers, "managed-wallets")
                            THEN <<Called("_managedHandlers", "managed-wallets",
                                          managedHandlers["managed-wallets"], after)>>
                            ELSE <<>>)

-----------------------------------------------------------------------------
(* C6: for an orders frame whose body carries symbol S, the general order  *)
(* handler and the handler filtered to S, when registered, are each        *)
(* invoked exactly once with the raw message, the general one first; no    *)
(* handler filtered to another symbol is invoked; after them the orders    *)
(* slot is updated exactly once with the whole message and the managed     *)
(* orders handler, if registered, receives the snapshot.  Stated for a     *)
(* session constructed with an Orders component.                           *)

C6_Step ==
    (/\ last'.op = "handleMessage" /\ IsInfo(last'.m) /\ last'.m.data \in OrderCodes
     /\ last'.m.body # NoBody
     /\ conf.Orders)
    => LET msg == last'.m
           k == "info-orders-" \o msg.body.symbol
           after == Append(managedState.orders.state, msg)
       IN /\ managedState' = [managedState EXCEPT !.orders.state = after]
          /\ thrown' = "none"
          /\ log' = (((<<Emit("message", msg)>>
                         \o (IF Has(infoHandlers, "info-orders")
                             THEN <<Called("_infoHandlers", "info-orders",
                                           infoHandlers["info-orders"], msg)>>
                             ELSE <<>>))
                         \o (IF Has(infoHandlers, k)
                             THEN <<Called("_infoHandlers", k, infoHandlers[k], msg)>>
                             ELSE <<>>))
                         \o <<Updated("orders", "", msg)>>)
                         \o (IF Has(managedHandlers, "managed-orders")
                             THEN <<Called("_managedHandlers", "managed-orders",
                                           managedHandlers["managed-orders"], after)>>
                             ELSE <<>>)

-----------------------------------------------------------------------------
(* C9: onPublicTradeUpdate with a filter that has no symbol fails with an  *)
(* error at registration and leaves the trade handler table unchanged;     *)
(* onOrderUpdate without a symbol succeeds and registers the general       *)
(* handler.                                                                *)

C9_Step ==
    /\ (last'.op = "onPublicTradeUpdate" /\ ~Truthy(last'.symbol)) =>
          /\ thrown' # "none"
          /\ tradeHandlers' = tradeHandlers
    /\ (last'.op = "onOrderUpdate" /\ ~Truthy(last'.symbol)) =>
          /\ thrown' = "none"
          /\ Has(infoHandlers', "info-orders")
          /\ infoHandlers'["info-orders"] = last'.h

\* C9: onPublicTradeUpdate refuses a filter without a symbol; onOrderUpdate
\* without a symbol registers the general handler
C9_TradeFilterValidated == [][C9_Step]_vars

-----------------------------------------------------------------------------
(* C10: a frame that is not JSON produces exactly one 'error' event, which *)
(* carries the text and the decode failure, and no 'message' event; no     *)
(* handler runs; the registry, the slots, the handler tables and the       *)
(* connection's flag are unchanged; the frame after it is decoded and      *)
(* dispatched (what a frame does depends on nothing else).                 *)

C10_Step ==
    /\ (last'.op = "handleMessage" /\ last'.m.t = "garbage") =>
          /\ Len(log') = 1
          /\ log'[1].op = "emit" /\ log'[1].tgt = "error"
          /\ log'[1].arg.msg = last'.m
          /\ log'[1].arg.info = "SyntaxError"
          /\ thrown' = "none"
          /\ UNCHANGED <<conf, ws, connected, channels, bookHandlers, tradeHandlers,
                         infoHandlers, managedHandlers, managedState>>
    /\ (/\ last.op = "handleMessage" /\ last.m.t = "garbage"
        /\ last'.op = "handleMessage" /\ last'.m.t # "garbage") =>
          /\ Len(log') >= 1
          /\ log'[1] = Emit("message", last'.m)
          /\ IsBookAck(last'.m) =>
                Resolves(channels', last'.m.chanId)
          /\ (IsInfo(last'.m) /\ last'.m.data \in WalletCodes /\ conf.Wallet) =>
                managedState'.wallet.state = Append(managedState.wallet.state, last'.m.body)

\* C10: a frame that is not JSON yields one 'error' event with its text and
\* changes nothing; the next frame is processed
C10_DecodeFailureIsolated == [][C10_Step]_vars

\* a malformed frame arrived on an open connection with a subscription
\* acknowledged: the error event carries its text
C10_Witness ==
    /\ IsFrame /\ last.m.t = "garbage"
    /\ connected = "true"
    /\ Resolves(channels, OneChanId)
    /\ Len(log) = 1 /\ log[1].tgt = "error" /\ log[1].arg.msg = last.m

-----------------------------------------------------------------------------
(* C11: a wallet frame that arrives while neither the raw wallet handler   *)
(* nor the managed wallet handler is registered raises nothing and updates *)
(* the wallet slot with its body exactly once, so that getState() on the   *)
(* slot then holds the body.                                               *)

C11_Step ==
    (/\ last'.op = "handleMessage" /\ IsInfo(last'.m) /\ last'.m.data \in WalletCodes
     /\ ~Has(infoHandlers, "info-wallet")
     /\ ~Has(managedHandlers, "managed-wallets"))
    => /\ thrown' = "none"
       /\ ~managedState'.wallet.null
       /\ getState(managedState'.wallet)
             = Append(getState(managedState.wallet), last'.m.body)
       /\ Cardinality(Updates(log')) = 1
       /\ Calls(log') = {}

\* C11: a wallet frame with no wallet handler registered raises nothing and
\* updates the wallet slot exactly once
C11_WalletUpdatedWithoutHandlers == [][C11_Step]_vars

-----------------------------------------------------------------------------
(* C12: every frame that decodes, whatever its kind, is emitted whole as a *)
(* 'message' event exactly once, and the emission is the first thing its   *)
(* handling does: every registry write, slot update and handler invocation *)
(* of the frame comes after it.                                            *)

C12_Step ==
    (last'.op = "handleMessage" /\ last'.m.t # "garbage")
    => /\ Len(log') >= 1
       /\ log'[1] = Emit("message", last'.m)
       /\ \A i \in DOMAIN log' :
             /\ (log'[i].op = "emit" /\ log'[i].tgt = "message") => i = 1
             /\ log'[i].op \in {"record", "update", "call"} => i > 1

\* C12: a decoded frame is emitted as 'message' once, before any registry
\* write, slot update or handler invocation it causes
C12_MessageEmittedFirst == [][C12_Step]_vars

\* an ack was emitted and then recorded
C12_Witness ==
    /\ IsFrame /\ IsBookAck(last.m)
    /\ Len(log) = 2
    /\ log[1] = Emit("message", last.m)
    /\ log[2].op = "record"

-----------------------------------------------------------------------------
(* C13: a registry entry appears or changes only in the step that handles  *)
(* a control message whose event is 'subscribed', under that message's     *)
(* channel type and channel id, and holds that message; subscribe calls,   *)
(* other control events, account-info frames, market-data frames and       *)
(* registrations add or change no entry.                                   *)

C13_Step ==
    \A t \in DOMAIN channels' : \A c \in DOMAIN channels'[t] :
        /\ channels'[t][c].event = "subscribed"
        /\ ~(Has(channels, t) /\ Has(channels[t], c) /\ channels[t][c] = channels'[t][c])
           => /\ last'.op = "handleMessage"
              /\ last'.m.t = "object" /\ last'.m.event = "subscribed"
              /\ last'.m.channel = t /\ last'.m.chanId = c
              /\ channels'[t][c] = last'.m

\* C13: only a 'subscribed' control message adds or changes a registry entry
C13_OnlyAcksRecord == [][C13_Step]_vars

\* a control message with another event was handled while the registry held
\* an entry, and left it as it was
C13_Witness ==
    /\ IsFrame /\ last.m.t = "object" /\ last.m.event = "unsubscribed"
    /\ Resolves(channels, OneChanId)
    /\ channels["book"][OneChanId].event = "subscribed"

-----------------------------------------------------------------------------
(* C14: a market-data frame whose payload is 'te' or 'tu' is a public      *)
(* trade update.  If its channel id resolves in the 'trades' registry and  *)
(* a handler is registered for the resolved symbol, that handler is        *)
(* invoked once with the frame.  If the 'trades' registry does not exist,  *)
(* the channel id is not in it, or the symbol has no handler, the frame is *)
(* dropped: nothing is raised, no handler runs, no state changes.          *)

IsPublicTrade(msg) == IsArray(msg) /\ msg.chanId # "0" /\ msg.data \in {"te", "tu"}

C14_Step ==
    (last'.op = "handleMessage" /\ IsPublicTrade(last'.m))
    => LET c == last'.m.chanId
           known == Has(channels, "trades") /\ Has(channels["trades"], c)
           s == channels["trades"][c].symbol
       IN /\ channels' = channels
          /\ managedState' = managedState
          /\ IF known /\ Has(tradeHandlers, s)
             THEN /\ thrown' = "none"
                  /\ log' = <<Emit("message", last'.m),
                              Called("_tradeHandlers", s, tradeHandlers[s], last'.m)>>
             ELSE /\ thrown' = "none"
                  /\ Calls(log') = {}

\* C14: a public trade update reaches the trade handler of the resolved symbol
\* once, and is dropped without raising when nothing resolves
C14_PublicTradeRouting == [][C14_Step]_vars

-----------------------------------------------------------------------------
(* C19: an account-info frame with code 'tu' or 'te' invokes the raw       *)
(* private-trade handler, if registered, once with the raw message, and    *)
(* nothing else: no public trade handler, no orders handler, no managed    *)
(* handler; the slots and the registry are unchanged.                      *)

C19_Step ==
    (last'.op = "handleMessage" /\ IsInfo(last'.m) /\ last'.m.data \in PrivTradeCodes)
    => /\ thrown' = "none"
       /\ log' = <<Emit("message", last'.m)>>
                   \o (IF Has(infoHandlers, "info-priv-trades")
                       THEN <<Called("_infoHandlers", "info-priv-trades",
                                     infoHandlers["info-priv-trades"], last'.m)>>
                       ELSE <<>>)
       /\ managedState' = managedState
       /\ channels' = channels

\* C19: a private trade frame invokes only the private-trade handler, once,
\* and changes no slot and no registry entry
C19_PrivateTradeOnly == [][C19_Step]_vars

\* a private trade frame for BTCUSD arrived with the private-trade handler,
\* the public trade handler of BTCUSD and the general orders handler
\* registered: only the first ran
C19_Witness ==
    /\ IsFrame /\ IsInfo(last.m) /\ last.m.data \in PrivTradeCodes
    /\ Has(infoHandlers, "info-priv-trades")
    /\ Has(tradeHandlers, "BTCUSD")
    /\ Has(infoHandlers, "info-orders")
    /\ Len(log) = 2
    /\ log[2].op = "call" /\ log[2].key = "info-priv-trades" /\ log[2].arg = last.m

-----------------------------------------------------------------------------
(* C15: unSubscribeOrderBook(symbol) for a symbol to which the registry    *)
(* gives no book channel id (never acknowledged, or no longer held) is a   *)
(* no-op: nothing is raised, no unsubscribe command is sent, and the       *)
(* registry, the book slots and the handler tables are unchanged.  The     *)
(* symbol still has no channel id afterwards, so a second call in a row    *)
(* does what the first did.                                                *)

\* the 'book' registry gives symbol s a channel id
HasBookChannel(ch, s) ==
    \E c \in ChanIds : Resolves(ch, c) /\ ch["book"][c].symbol = s

C15_Step ==
    (/\ last'.op = "unSubscribeOrderBook"
     /\ last'.symbol \in Symbols
     /\ ~HasBookChannel(channels, last'.symbol))
    => /\ thrown' = "none"
       /\ log' = <<>>
       /\ UNCHANGED <<ws, connected, channels, managedState, bookHandlers, tradeHandlers,
                      infoHandlers, managedHandlers>>
       /\ ~HasBookChannel(channels', last'.symbol)

\* C15: unsubscribing a symbol with no known book channel id raises nothing,
\* sends nothing and changes nothing, however often it is called
C15_UnknownUnsubscribeNoOp == [][C15_Step]_vars

\* on an open connection whose registry holds channel 5 for ETHUSD only,
\* unSubscribeOrderBook('BTCUSD') sent nothing and raised nothing
C15_Witness ==
    /\ last.op = "unSubscribeOrderBook" /\ last.symbol = "BTCUSD"
    /\ ws # Undefined
    /\ Resolves(channels, "5") /\ channels["book"]["5"].symbol = "ETHUSD"
    /\ ~HasBookChannel(channels, "BTCUSD")
    /\ log = <<>> /\ thrown = "none"

-----------------------------------------------------------------------------
(* C17: in every reachable state the registry holds at most one            *)
(* subscription per channel type and symbol: no two channel ids of one     *)
(* channel type map to the same symbol.                                    *)

\* C17: no two channel ids of a channel type map to the same symbol
C17_OnePerSymbol ==
    \A t \in DOMAIN channels : \A c1, c2 \in DOMAIN channels[t] :
        channels[t][c1].symbol = channels[t][c2].symbol => c1 = c2

-----------------------------------------------------------------------------
(* C16: a frame that decodes to something that is neither a record with an *)
(* event field nor an array (JSON null, a number, a record without event)  *)
(* is ignored: after the 'message' event nothing is raised, no handler     *)
(* runs and no state changes.                                              *)

C16_Step ==
    (/\ last'.op = "handleMessage"
     /\ last'.m.t \notin {"garbage", "array"}
     /\ ~Truthy(last'.m.event))
    => /\ thrown' = "none"
       /\ log' = <<Emit("message", last'.m)>>
       /\ UNCHANGED <<conf, ws, connected, channels, bookHandlers, tradeHandlers,
                      infoHandlers, managedHandlers, managedState>>

\* C16: a decoded frame that is neither a control record nor an array is
\* ignored without raising
C16_UnclassifiedIgnored == [][C16_Step]_vars

-----------------------------------------------------------------------------
(* C20: recording a 'subscribed' ack is idempotent per channel id and      *)
(* overwrites: an ack leaves the registry equal to the one before with the *)
(* ack stored under its channel id, so delivering an ack the registry      *)
(* already holds changes nothing, and an ack with another payload replaces *)
(* the entry; the book frame that follows an ack on its channel id is      *)
(* routed to that ack's symbol only.  Routing is stated for a session      *)
(* constructed with an Orderbook component.                                *)

C20_Step ==
    /\ (last'.op = "handleMessage" /\ IsBookAck(last'.m)) =>
          LET c == last'.m.chanId
              inner == IF Has(channels, "book") THEN channels["book"] ELSE <<>>
          IN /\ channels' = Put(channels, "book", Put(inner, c, last'.m))
             /\ (Resolves(channels, c) /\ channels["book"][c] = last'.m)
                   => channels' = channels
    /\ (/\ last.op = "handleMessage" /\ IsBookAck(last.m)
        /\ last'.op = "handleMessage" /\ IsBookDelta(last'.m)
        /\ last'.m.chanId = last.m.chanId
        /\ conf.Orderbook) =>
          LET s == last.m.symbol
          IN /\ Updates(log') # {}
             /\ \A i \in Updates(log') \cup Calls(log') :
                   log'[i].key \in {s, "managed-ob" \o s}
             /\ \A s2 \in Symbols \ {s} :
                   BookState(managedState', s2) = BookState(managedState, s2)

\* C20: an ack overwrites the entry of its channel id, a repeated ack changes
\* nothing, and frames on the channel id go to the later ack's symbol
C20_AckIdempotentOverwrite == [][C20_Step]_vars

\* channel 5 fed the BTCUSD slot and was then acknowledged again for ETHUSD:
\* the registry holds the later ack alone
C20_Witness ==
    /\ nops = 3
    /\ IsFrame /\ IsBookAck(last.m) /\ last.m.chanId = "5" /\ last.m.symbol = "ETHUSD"
    /\ Has(managedState.books, "BTCUSD")
    /\ DOMAIN channels["book"] = {"5"}
    /\ channels["book"]["5"] = last.m

-----------------------------------------------------------------------------
(* C18: a handler that throws while a frame is dispatched does not disturb *)
(* the frames after it: the registry and the handler tables are as they    *)
(* were, and a later frame is dispatched as if the handler had returned.   *)
(* For two orders frames in a row, the first with a throwing handler and   *)
(* the second without, the orders slot after the second holds both         *)
(* messages, and the managed-orders handler receives that snapshot.        *)
(* Stated for a session constructed with an Orders component.              *)

IsOrders(msg) == IsInfo(msg) /\ msg.data \in OrderCodes /\ msg.body # NoBody

C18_Step ==
    /\ (last'.op = "handleMessage" /\ thrown' = "HandlerError") =>
          UNCHANGED <<channels, bookHandlers, tradeHandlers, infoHandlers, managedHandlers>>
    /\ (/\ conf.Orders
        /\ last.op = "handleMessage" /\ IsOrders(last.m) /\ thrown = "HandlerError"
        /\ last'.op = "handleMessage" /\ IsOrders(last'.m) /\ thrown' = "none") =>
          LET st == getState(managedState'.orders)
              n == Len(st)
          IN /\ n >= 2
             /\ st[n - 1] = last.m
             /\ st[n] = last'.m
             /\ Has(managedHandlers, "managed-orders") =>
                   \E i \in CallsTo(log', "_managedHandlers", "managed-orders") :
                       log'[i].arg = st

\* C18: after a frame during which a handler threw, the next frame is
\* dispatched to handlers and slots as if that handler had returned
C18_ThrowingHandlerIsolated == [][C18_Step]_vars

====
